---- MODULE Spec2Model ----
(***************************************************************************)
(* Model of bindings/python/cntk/sample_installer.py: the version-derived  *)
(* default URL (module_is_unreleased, default_sample_url), the procedure   *)
(* install_samples and the command-line entry point.                       *)
(*                                                                         *)
(* Text is a sequence of one-character strings, so that endswith, slicing, *)
(* replace, split, capitalize and join are computed character by           *)
(* character.  The fixed parts of the URL template are single tokens.      *)
(* The filesystem is the destination paths (absent, not a directory, or a  *)
(* directory with a set of entries) and the set of transient files.        *)
(***************************************************************************)
EXTENDS Integers, Sequences, FiniteSets, TLC

\* Number of invocations of install_samples followed in one behaviour.
MaxCalls == 3

VARIABLES
    version,        \* cntk.__version__
    kind,           \* destination path -> "absent" | "notdir" | "dir"
    entries,        \* destination path -> entries directly under it
    tempfiles,      \* transient files on disk, named by the invocation that made them
    calls,          \* invocations of install_samples so far
    pc,             \* position of the current invocation
    via,            \* "api" (install_samples called directly) or "cli" (__main__)
    url_arg,        \* the url install_samples received
    url,            \* the local url (rebound on line 56)
    localdir,       \* the localdir install_samples received
    quiet,          \* the quiet flag install_samples received
    zip_filename,   \* None (0) or the transient file urlretrieve returned
    output,         \* what show_message printed in the current invocation
    error,          \* the exception that left install_samples, or "none"
    fetchCalls,     \* calls of urlretrieve in the current invocation
    extractCalls,   \* calls of extractall in the current invocation
    reqChecks,      \* calls of os.path.isfile(requirements_file) in the current invocation
    pipCalls,       \* argument lists handed to pip.main in the current invocation
    pipStatus,      \* what pip.main returned: "ok" (0) or "failed" (non-zero);
                    \* "none" when it was not called
    extracted       \* destination path -> "no", or how far an extraction into it got:
                    \* "partial" or "full" (history)

vars == <<version, kind, entries, tempfiles, calls, pc, via, url_arg, url,
          localdir, quiet, zip_filename, output, error, fetchCalls,
          extractCalls, reqChecks, pipCalls, pipStatus, extracted>>

(***************************************************************************)
(* Text                                                                    *)
(***************************************************************************)
Letters == {<<"r", "R">>, <<"c", "C">>, <<"d", "D">>}

upper(ch) == IF \E p \in Letters : p[1] = ch
             THEN (CHOOSE p \in Letters : p[1] = ch)[2] ELSE ch

lower(ch) == IF \E p \in Letters : p[2] = ch
             THEN (CHOOSE p \in Letters : p[2] = ch)[1] ELSE ch

\* str.endswith with a one-character suffix
endswith(s, ch) == Len(s) > 0 /\ s[Len(s)] = ch

\* str.replace of one character by another
replace(s, old, new) == [i \in 1..Len(s) |-> IF s[i] = old THEN new ELSE s[i]]

\* str.capitalize: first character upper-cased, the rest lower-cased
capitalize(s) == [i \in 1..Len(s) |-> IF i = 1 THEN upper(s[i]) ELSE lower(s[i])]

\* str.split(sep) with a one-character separator
RECURSIVE split(_, _)
split(s, sep) ==
    IF \E i \in 1..Len(s) : s[i] = sep
    THEN LET i == CHOOSE k \in 1..Len(s) :
                      s[k] = sep /\ \A j \in 1..(k - 1) : s[j] # sep
         IN <<SubSeq(s, 1, i - 1)>> \o split(SubSeq(s, i + 1, Len(s)), sep)
    ELSE <<s>>

\* sep.join(parts)
RECURSIVE join(_, _)
join(sep, parts) ==
    IF Len(parts) = 0 THEN <<>>
    ELSE IF Len(parts) = 1 THEN parts[1]
    ELSE parts[1] \o <<sep>> \o join(sep, Tail(parts))

\* string.capwords(s, sep)
capwords(s, sep) ==
    LET words == split(s, sep)
    IN join(sep, [i \in 1..Len(words) |-> capitalize(words[i])])

(***************************************************************************)
(* Target resolver                                                         *)
(***************************************************************************)
UrlPrefix == <<"https://cntk.ai/Samples/CNTK-Samples-">>
UrlSuffix == <<".zip">>

module_is_unreleased == endswith(version, "+")

\* default_sample_url without the removal of the trailing marker.
default_sample_url_KeepMarker ==
    UrlPrefix \o capwords(replace(version, ".", "-"), "-") \o UrlSuffix

default_sample_url ==
    LET v1 == IF module_is_unreleased
              THEN SubSeq(version, 1, Len(version) - 1) ELSE version
        v2 == replace(v1, ".", "-")
        v3 == capwords(v2, "-")
    IN UrlPrefix \o v3 \o UrlSuffix

(***************************************************************************)
(* Inputs                                                                  *)
(***************************************************************************)
Components == {<<"2">>, <<"5">>, <<"1">>, <<"r", "C", "1">>}

MkVersion(a, b, c, marked) ==
    a \o <<".">> \o b \o <<".">> \o c \o (IF marked THEN <<"+">> ELSE <<>>)

Versions == {MkVersion(a, b, c, m) : a \in Components, b \in Components,
                                     c \in Components, m \in BOOLEAN}

InstalledVersions == {MkVersion(<<"2">>, <<"5">>, <<"1">>, m) : m \in BOOLEAN}

None == <<"None">>
CustomUrl == <<"http://host/samples.zip">>
UrlArgs == {None, <<>>, CustomUrl}

Dests == {".", "out"}

ReqFile == [name |-> "requirements.txt", type |-> "file"]
ReqDir == [name |-> "requirements.txt", type |-> "dir"]
DataFile == [name |-> "data.txt", type |-> "file"]

\* The member lists a downloaded archive can have.
Archives == {a \in SUBSET {ReqFile, ReqDir, DataFile} : ~({ReqFile, ReqDir} \subseteq a)}

(***************************************************************************)
(* Filesystem and status output                                            *)
(***************************************************************************)
lexists(path) == kind[path] # "absent"

isdir(path) == kind[path] = "dir"

listdir(path) == entries[path]

\* os.path.join(localdir, 'requirements.txt')
requirements_file(dir) == <<dir, "requirements.txt">>

\* os.path.exists in place of os.path.isfile: a directory of that name counts.
isfile_AnyType(path) ==
    /\ kind[path[1]] = "dir"
    /\ \E e \in entries[path[1]] : e.name = path[2]

\* os.path.isfile of a path directly under a destination
isfile(path) ==
    /\ kind[path[1]] = "dir"
    /\ [name |-> path[2], type |-> "file"] \in entries[path[1]]

\* Line 44 without the emptiness test: any directory is accepted.
DestInvalid_AnyDirectory(path) == lexists(path) /\ ~isdir(path)

\* Line 44 as a bare existence test: an empty directory is rejected too.
DestInvalid_MustBeAbsent(path) == lexists(path)

\* The condition of line 44 under which ValueError is raised.
DestInvalid(path) ==
    lexists(path) /\ ~(isdir(path) /\ Cardinality(listdir(path)) = 0)

\* show_message that ignores the quiet flag.
show_message_Always(out, text) == Append(out, text)

\* show_message: prints unless quiet
show_message(out, text) == IF ~quiet THEN Append(out, text) ELSE out

\* `url is None` in place of `not url`.
Falsy_NoneOnly(u) == u = None

\* `not url`: None and the empty string are false
Falsy(u) == u = None \/ u = <<>>

\* The finally clause: if zip_filename: os.remove(zip_filename)
Cleanup(files, zf) == IF zf # 0 THEN files \ {zf} ELSE files

\* Process exit status of the command line: 0 unless an exception escaped
ExitCode == IF error = "none" THEN 0 ELSE 1

Idle == pc \in {"idle", "done", "raised"}

\* The exception is swallowed and the invocation counts as finished.
Raise_Swallowed(err) == pc' = "done" /\ error' = "none"

\* An exception leaves install_samples: the try statement has no except clause.
Raise(err) == pc' = "raised" /\ error' = err

(***************************************************************************)
(* Initial state                                                           *)
(***************************************************************************)
\* What a destination path can be before any invocation.
DestStates == {<<"absent", {}>>, <<"notdir", {}>>, <<"dir", {}>>, <<"dir", {DataFile}>>}

InitFor(vs) ==
    /\ version \in vs
    /\ \E f \in [Dests -> DestStates] :
          /\ kind = [d \in Dests |-> f[d][1]]
          /\ entries = [d \in Dests |-> f[d][2]]
    /\ tempfiles = {}
    /\ calls = 0
    /\ pc = "idle"
    /\ via = "api"
    /\ url_arg = None
    /\ url = None
    /\ localdir = "."
    /\ quiet = FALSE
    /\ zip_filename = 0
    /\ output = <<>>
    /\ error = "none"
    /\ fetchCalls = 0
    /\ extractCalls = 0
    /\ reqChecks = 0
    /\ pipCalls = <<>>
    /\ pipStatus = "none"
    /\ extracted = [d \in Dests |-> "no"]

Init == InitFor(InstalledVersions)

(***************************************************************************)
(* install_samples, one action per step                                    *)
(***************************************************************************)
\* Entry into install_samples(u, d, q): fresh locals, nothing done yet.
Enter(how, u, d, q) ==
    /\ Idle
    /\ calls < MaxCalls
    /\ calls' = calls + 1
    /\ pc' = "start"
    /\ via' = how
    /\ url_arg' = u
    /\ url' = u
    /\ localdir' = d
    /\ quiet' = q
    /\ zip_filename' = 0
    /\ output' = <<>>
    /\ error' = "none"
    /\ fetchCalls' = 0
    /\ extractCalls' = 0
    /\ reqChecks' = 0
    /\ pipCalls' = <<>>
    /\ pipStatus' = "none"
    /\ UNCHANGED <<version, kind, entries, tempfiles, extracted>>

\* A direct call install_samples(url, localdir, quiet).
CallApi == \E u \in UrlArgs, d \in Dests, q \in BOOLEAN : Enter("api", u, d, q)

\* __main__: -u absent (None here) takes the parser default default_sample_url().
Main ==
    \E u \in UrlArgs, d \in Dests, q \in BOOLEAN :
        Enter("cli", IF u = None THEN default_sample_url ELSE u, d, q)

\* Lines 44-45: the destination check.
CheckDest ==
    /\ pc = "start"
    /\ IF DestInvalid(localdir)
       THEN Raise("ValueError")
       ELSE pc' = "checked" /\ error' = error
    /\ UNCHANGED <<version, kind, entries, tempfiles, calls, via, url_arg, url,
                   localdir, quiet, zip_filename, output, fetchCalls,
                   extractCalls, reqChecks, pipCalls, pipStatus, extracted>>

\* Lines 51-58: the default url and the unreleased-version warning.
ResolveUrl ==
    /\ pc = "checked"
    /\ IF Falsy(url)
       THEN /\ output' = IF module_is_unreleased
                         THEN show_message(output, [tag |-> "unreleased", arg |-> <<>>])
                         ELSE output
            /\ url' = default_sample_url
       ELSE UNCHANGED <<output, url>>
    /\ zip_filename' = 0
    /\ pc' = "resolved"
    /\ UNCHANGED <<version, kind, entries, tempfiles, calls, via, url_arg,
                   localdir, quiet, error, fetchCalls, extractCalls, reqChecks,
                   pipCalls, pipStatus, extracted>>

\* Lines 60-61 (and 72-73 when urlretrieve raises).  urlretrieve either raises
\* before it has created its transient file, raises after it has created it
\* (the transfer breaks off), or returns the name of the transient file.
Fetch ==
    /\ pc = "resolved"
    /\ output' = show_message(output, [tag |-> "retrieving", arg |-> url])
    /\ fetchCalls' = fetchCalls + 1
    /\ \E outcome \in {"refused", "broken", "ok"} :
          CASE outcome = "refused" ->
                  /\ tempfiles' = Cleanup(tempfiles, zip_filename)
                  /\ UNCHANGED zip_filename
                  /\ Raise("FetchError")
            [] outcome = "broken" ->
                  /\ tempfiles' = Cleanup(tempfiles \cup {calls}, zip_filename)
                  /\ UNCHANGED zip_filename
                  /\ Raise("FetchError")
            [] outcome = "ok" ->
                  /\ tempfiles' = tempfiles \cup {calls}
                  /\ zip_filename' = calls
                  /\ pc' = "fetched" /\ error' = error
    /\ UNCHANGED <<version, kind, entries, calls, via, url_arg, url, localdir,
                   quiet, extractCalls, reqChecks, pipCalls, pipStatus, extracted>>

\* An extraction that removes what it wrote when it fails partway.
Write_Rollback(dir, members, complete) ==
    /\ kind' = IF members = {} \/ ~complete THEN kind ELSE [kind EXCEPT ![dir] = "dir"]
    /\ entries' = IF complete THEN [entries EXCEPT ![dir] = @ \cup members] ELSE entries
    /\ extracted' = IF members = {} THEN extracted
                    ELSE [extracted EXCEPT ![dir] = IF complete THEN "full" ELSE "partial"]

\* extractall writes members under a destination (created when absent);
\* complete is FALSE when it raises before the last member.
Write(dir, members, complete) ==
    /\ kind' = IF members = {} THEN kind ELSE [kind EXCEPT ![dir] = "dir"]
    /\ entries' = [entries EXCEPT ![dir] = @ \cup members]
    /\ extracted' = IF members = {} THEN extracted
                    ELSE [extracted EXCEPT ![dir] = IF complete THEN "full" ELSE "partial"]

\* Lines 62-64 (and 72-73 when the archive cannot be opened or extracted).
Extract ==
    /\ pc = "fetched"
    /\ output' = show_message(output, [tag |-> "unzipping", arg |-> localdir])
    /\ \E valid \in BOOLEAN, members \in Archives :
          IF ~valid
          THEN \* zipfile.ZipFile raises: not an archive
               /\ UNCHANGED <<kind, entries, extracted, extractCalls>>
               /\ tempfiles' = Cleanup(tempfiles, zip_filename)
               /\ Raise("ExtractionError")
          ELSE /\ extractCalls' = extractCalls + 1
               /\ \E written \in SUBSET members :
                     /\ Write(localdir, written, written = members)
                     /\ IF written = members
                        THEN /\ UNCHANGED tempfiles
                             /\ pc' = "extracted" /\ error' = error
                        ELSE \* extractall raises partway; nothing is rolled back
                             /\ tempfiles' = Cleanup(tempfiles, zip_filename)
                             /\ Raise("ExtractionError")
    /\ UNCHANGED <<version, calls, via, url_arg, url, localdir, quiet,
                   zip_filename, fetchCalls, reqChecks, pipCalls, pipStatus>>

\* Lines 65-73 with the status of pip.main checked: a failed install raises.
Requirements_StatusChecked ==
    /\ pc = "extracted"
    /\ reqChecks' = reqChecks + 1
    /\ IF isfile(requirements_file(localdir))
       THEN /\ output' = show_message(output, [tag |-> "installing", arg |-> <<>>])
            /\ pipCalls' = Append(pipCalls, <<"install", "-r", requirements_file(localdir)>>)
            /\ \E status \in {"ok", "failed"} :
                  /\ pipStatus' = status
                  /\ IF status = "ok" THEN pc' = "done" /\ error' = error
                     ELSE Raise("InstallError")
       ELSE /\ output' = show_message(output, [tag |-> "missing",
                                               arg |-> requirements_file(localdir)])
            /\ pc' = "done" /\ error' = error
            /\ UNCHANGED <<pipCalls, pipStatus>>
    /\ tempfiles' = Cleanup(tempfiles, zip_filename)
    /\ UNCHANGED <<version, kind, entries, calls, via, url_arg, url, localdir,
                   quiet, zip_filename, fetchCalls, extractCalls, extracted>>

\* Lines 65-73: requirements.txt, pip.main (its return value is dropped), cleanup.
Requirements ==
    /\ pc = "extracted"
    /\ reqChecks' = reqChecks + 1
    /\ IF isfile(requirements_file(localdir))
       THEN /\ output' = show_message(output, [tag |-> "installing", arg |-> <<>>])
            /\ pipCalls' = Append(pipCalls, <<"install", "-r", requirements_file(localdir)>>)
            /\ \E status \in {"ok", "failed"} : pipStatus' = status
       ELSE /\ output' = show_message(output, [tag |-> "missing",
                                               arg |-> requirements_file(localdir)])
            /\ UNCHANGED <<pipCalls, pipStatus>>
    /\ tempfiles' = Cleanup(tempfiles, zip_filename)
    /\ pc' = "done"
    /\ UNCHANGED <<version, kind, entries, calls, via, url_arg, url, localdir,
                   quiet, zip_filename, error, fetchCalls, extractCalls, extracted>>

Next ==
    \/ CallApi
    \/ Main
    \/ CheckDest
    \/ ResolveUrl
    \/ Fetch
    \/ Extract
    \/ Requirements

Spec == Init /\ [][Next]_vars

\* The target resolver over every version string a.b.c[+] of Versions: the
\* command line and the direct call, up to the point where the url is known.
InitUrl == InitFor(Versions)

NextUrl ==
    \/ CallApi
    \/ Main
    \/ CheckDest
    \/ ResolveUrl

SpecUrl == InitUrl /\ [][NextUrl]_vars

TypeOK ==
    /\ version \in Versions
    /\ kind \in [Dests -> {"absent", "notdir", "dir"}]
    /\ \A d \in Dests : entries[d] # {} => kind[d] = "dir"
    /\ tempfiles \subseteq 1..MaxCalls
    /\ calls \in 0..MaxCalls
    /\ pc \in {"idle", "start", "checked", "resolved", "fetched", "extracted", "done", "raised"}
    /\ zip_filename \in 0..MaxCalls

(***************************************************************************)
(* Properties                                                              *)
(***************************************************************************)
Finished == pc \in {"done", "raised"}

Emitted(tag) == \E i \in 1..Len(output) : output[i].tag = tag

NoSideEffectYet ==
    /\ fetchCalls = 0
    /\ extractCalls = 0
    /\ reqChecks = 0
    /\ pipCalls = <<>>
    /\ output = <<>>

\* The destination exists and is not a directory, or is a non-empty directory.
Occupied(d) == kind[d] = "notdir" \/ (kind[d] = "dir" /\ entries[d] # {})

\* C1: an invocation whose destination exists and is a non-empty directory
\* (or is not a directory) ends at the destination check with ValueError, and
\* in that invocation nothing has been fetched, extracted, handed to pip or
\* printed, and the filesystem (destinations and transient files) is as the
\* invocation found it.
C1_InvalidDestinationFailsFirst ==
    [][/\ (pc' = "start") => UNCHANGED <<kind, entries, tempfiles>>
       /\ (pc = "start" /\ Occupied(localdir)) =>
             /\ pc' = "raised"
             /\ error' = "ValueError"
             /\ NoSideEffectYet'
             /\ UNCHANGED <<kind, entries, tempfiles>>]_vars

C1_Witness ==
    /\ pc = "raised"
    /\ error = "ValueError"
    /\ kind[localdir] = "dir"
    /\ entries[localdir] # {}
    /\ NoSideEffectYet

\* C2: the destination check raises exactly when the destination exists and
\* is not a directory or is a non-empty directory; an absent destination or an
\* empty directory passes, and the invocation goes on to the download.
C2_CheckFailsExactlyWhenOccupied ==
    [][/\ (pc = "start") =>
             /\ (pc' = "raised" /\ error' = "ValueError") <=> Occupied(localdir)
             /\ (kind[localdir] = "absent" \/ (kind[localdir] = "dir" /\ entries[localdir] = {}))
                   => (pc' = "checked" /\ error' = "none")
       /\ (pc = "checked") => (pc' = "resolved" /\ fetchCalls' = 0)
       /\ (pc = "resolved") => fetchCalls' = 1]_vars

C2_Witness ==
    /\ pc = "fetched"
    /\ fetchCalls = 1
    /\ kind[localdir] = "dir"
    /\ entries[localdir] = {}

\* C3: once an invocation that began a download has ended, in whatever way,
\* its transient file is not on disk.
C3_TransientFileRemoved ==
    (Finished /\ fetchCalls > 0) => calls \notin tempfiles

\* The components of a version as they must appear in the URL.
Titled(comp) == IF comp = <<"r", "C", "1">> THEN <<"R", "c", "1">> ELSE comp

ExpectedUrl(a, b, c) ==
    UrlPrefix \o Titled(a) \o <<"-">> \o Titled(b) \o <<"-">> \o Titled(c) \o UrlSuffix

\* C4: for a version a.b.c with or without the trailing '+',
\* module_is_unreleased is true exactly when the '+' is there, and
\* default_sample_url is the template around A-B-C (components capitalised and
\* joined by dashes, without '.' or '+'), the same with and without the '+';
\* that is the url the command line passes on and the one a call without url uses.
C4_DefaultUrlFromVersion ==
    \A a \in Components, b \in Components, c \in Components, m \in BOOLEAN :
        version = MkVersion(a, b, c, m) =>
            /\ module_is_unreleased = m
            /\ default_sample_url = ExpectedUrl(a, b, c)
            /\ \A i \in 2..(Len(default_sample_url) - 1) :
                  default_sample_url[i] \notin {".", "+"}
            /\ (pc = "start" /\ via = "cli" /\ url_arg \notin {<<>>, CustomUrl})
                  => url = ExpectedUrl(a, b, c)
            /\ (pc = "resolved" /\ url_arg \in {None, <<>>})
                  => url = ExpectedUrl(a, b, c)

C4_Witness ==
    /\ version = <<"2", ".", "5", ".", "1", "+">>
    /\ module_is_unreleased
    /\ pc = "resolved"
    /\ url_arg = None
    /\ url = <<"https://cntk.ai/Samples/CNTK-Samples-", "2", "-", "5", "-", "1", ".zip">>

\* C5: pip is invoked if and only if the extraction succeeded and a file
\* requirements.txt lies directly under the destination, then once and with
\* that path; without the file there is no pip call, the warning is printed
\* unless quiet, and the invocation ends without error.
C5_PipExactlyForRequirementsFile ==
    /\ Len(pipCalls) <= 1
    /\ pipCalls # <<>> =>
          /\ pc = "done"
          /\ extractCalls = 1
          /\ extracted[localdir] = "full"
          /\ ReqFile \in entries[localdir]
          /\ pipCalls[1] = <<"install", "-r", <<localdir, "requirements.txt">>>>
    /\ (pc = "done" /\ ReqFile \in entries[localdir]) => Len(pipCalls) = 1
    /\ (pc = "done" /\ ReqFile \notin entries[localdir]) =>
          /\ pipCalls = <<>>
          /\ error = "none"
          /\ ~quiet => /\ Len(output) > 0
                       /\ output[Len(output)] =
                             [tag |-> "missing", arg |-> <<localdir, "requirements.txt">>]
    /\ pc = "raised" => pipCalls = <<>>

C5_Witness ==
    /\ pc = "done"
    /\ localdir = "out"
    /\ entries["out"] = {ReqFile, DataFile}
    /\ pipCalls = << <<"install", "-r", <<"out", "requirements.txt">>>> >>

\* C6: when pip.main fails, install_samples still returns normally (exit
\* status 0 from the command line), what was extracted stays in the
\* destination, and the transient file is removed.
C6_PipFailureNotFatal ==
    /\ [](pipStatus = "failed" =>
             /\ pc = "done"
             /\ error = "none"
             /\ ExitCode = 0
             /\ ReqFile \in entries[localdir]
             /\ calls \notin tempfiles)
    /\ [][pc = "extracted" => (pc' = "done" /\ UNCHANGED <<kind, entries>>)]_vars

C6_Witness ==
    /\ pipStatus = "failed"
    /\ via = "cli"
    /\ pc = "done"
    /\ ExitCode = 0
    /\ entries[localdir] = {ReqFile, DataFile}

\* C7: with quiet set, install_samples prints nothing, whatever the url
\* argument, the version and the presence of requirements.txt.
C7_QuietPrintsNothing == quiet => output = <<>>

C7_Witness ==
    /\ quiet
    /\ pc = "done"
    /\ url_arg = None
    /\ module_is_unreleased
    /\ pipCalls # <<>>

\* The steps of one invocation, in order.
Order == { <<"idle", "start">>, <<"done", "start">>, <<"raised", "start">>,
           <<"start", "checked">>, <<"start", "raised">>,
           <<"checked", "resolved">>,
           <<"resolved", "fetched">>, <<"resolved", "raised">>,
           <<"fetched", "extracted">>, <<"fetched", "raised">>,
           <<"extracted", "done">> }

\* C8: an invocation runs check, fetch, extract, dependency handling in that
\* order, each at most once; extraction needs a completed download, the
\* requirements step a completed extraction; after a failed fetch or a failed
\* extraction no later step runs and the error reaches the caller.
C8_LinearSequence ==
    /\ [](/\ fetchCalls <= 1 /\ extractCalls <= 1 /\ reqChecks <= 1 /\ Len(pipCalls) <= 1
          /\ pc \in {"fetched", "extracted"} => (fetchCalls = 1 /\ zip_filename # 0)
          /\ extractCalls = 1 => (fetchCalls = 1 /\ zip_filename # 0)
          /\ pc = "extracted" => extractCalls = 1
          /\ reqChecks = 1 => (extractCalls = 1 /\ pc = "done" /\ error = "none")
          /\ pipCalls # <<>> => reqChecks = 1
          /\ error = "FetchError" =>
                (pc = "raised" /\ fetchCalls = 1 /\ extractCalls = 0
                    /\ reqChecks = 0 /\ pipCalls = <<>>)
          /\ error = "ExtractionError" =>
                (pc = "raised" /\ fetchCalls = 1 /\ reqChecks = 0 /\ pipCalls = <<>>)
          /\ pc = "raised" <=> error # "none")
    /\ [][/\ <<pc, pc'>> \in Order
          /\ pc' # "start" =>
                /\ calls' = calls
                /\ fetchCalls' >= fetchCalls
                /\ extractCalls' >= extractCalls
                /\ reqChecks' >= reqChecks]_vars

C8_Witness ==
    /\ pc = "raised"
    /\ error = "ExtractionError"
    /\ extractCalls = 1
    /\ extracted[localdir] = "partial"
    /\ reqChecks = 0

\* C9: nothing an extraction wrote is ever removed, whether the extraction
\* failed partway or completed; a later invocation with that destination
\* therefore fails the destination check with ValueError and fetches nothing.
C9_NoRollback ==
    /\ [](\A d \in Dests : extracted[d] # "no" => (kind[d] = "dir" /\ entries[d] # {}))
    /\ [][/\ \A d \in Dests : entries[d] \subseteq entries'[d]
          /\ (pc = "start" /\ extracted[localdir] # "no") =>
                /\ pc' = "raised"
                /\ error' = "ValueError"
                /\ fetchCalls' = 0
                /\ tempfiles' = tempfiles]_vars

C9_Witness ==
    /\ calls >= 2
    /\ extracted[localdir] = "partial"
    /\ pc = "raised"
    /\ error = "ValueError"
    /\ fetchCalls = 0

\* C10 as stated: the unreleased-version warning is printed by an invocation
\* exactly when it received no url, the version is unreleased and quiet is off.
C10_WarningExactlyWhen ==
    Finished =>
        (Emitted("unreleased") <=>
            (url_arg \in {None, <<>>} /\ endswith(version, "+") /\ ~quiet))

\* C10 amended: the unreleased-version warning is printed exactly when the
\* destination check has passed and the invocation received no url, the
\* version is unreleased and quiet is off; it is the first message, printed
\* once, before 'retrieving'; the command line without -u never prints it.
C10_WarningExactlyWhenChecked ==
    /\ Emitted("unreleased") <=>
          /\ pc \in {"resolved", "fetched", "extracted", "done", "raised"}
          /\ error # "ValueError"
          /\ url_arg \in {None, <<>>}
          /\ endswith(version, "+")
          /\ ~quiet
    /\ \A i \in 1..Len(output) : output[i].tag = "unreleased" <=>
          (i = 1 /\ Emitted("unreleased"))
    /\ (Emitted("retrieving") /\ Emitted("unreleased")) => output[2].tag = "retrieving"
    /\ (via = "cli" /\ url_arg \notin {<<>>, CustomUrl}) => ~Emitted("unreleased")

C10_Witness ==
    /\ pc = "done"
    /\ url_arg = <<>>
    /\ Len(output) >= 2
    /\ output[1].tag = "unreleased"
    /\ output[2].tag = "retrieving"

====
